---- MODULE Spec2Model ----
(***************************************************************************)
(* Model of the drought prediction service: DroughtMLService (model        *)
(* loading, preprocessing, predict, predict_batch, categorize_drought,     *)
(* _calculate_confidence).                                                 *)
(*                                                                         *)
(* Numbers.  A float is a record [k, v]: k = "fin" with v an integer       *)
(* number of ticks, or one of the IEEE specials "nan", "inf", "ninf".      *)
(* Index values (REGCDI) are counted in ticks of 1/(2*Half), so the four   *)
(* category boundaries -1.0, -0.5, 0.0, 0.5 are -2*Half, -Half, 0, Half.   *)
(* Confidence values are counted in ticks of 1/(8*Half), so 0.5 is         *)
(* 4*Half, 1.0 is 8*Half and 0.25*d is d for a distance d in index ticks.  *)
(***************************************************************************)
EXTENDS Integers, Sequences, FiniteSets, TLC

\* ---------------------------------------------------------------- bounds
Half == 4          \* index ticks per 0.5
MaxRows == 14      \* longest input table
MaxBad == 2        \* most rows of a table holding a non-numeric / infinite cell
MaxNaN == 1        \* most rows of a table holding an empty (NaN) cell
MaxIdx == 7        \* pure-function inputs range over -MaxIdx*Half .. MaxIdx*Half
MaxRot == 2        \* input column orders: rotations 0..MaxRot of the canonical order
MaxExtra == 1      \* most extra columns of an input table
MaxMissing == 1    \* most required columns an input table lacks
MaxDocs == 2       \* most documents stored in one collection

\* ------------------------------------------------------- program constants
WINDOW == 12       \* rows per rolling window
NUM_FEATURES == 7
NDVI_LE == 1              \* MonthlyFeatures.ndvi: ge=0, le=1
SOIL_MOISTURE_LE == 100   \* MonthlyFeatures.soil_moisture: ge=0, le=100

\* Python's None (a record, so that it compares with loaded artifacts)
None == [none |-> TRUE]
NoExc == ""

\* ------------------------------------------------------------------ floats
F(n) == [k |-> "fin", v |-> n]
NaN == [k |-> "nan", v |-> 0]
PosInf == [k |-> "inf", v |-> 0]
NegInf == [k |-> "ninf", v |-> 0]

IsFinite(a) == a.k = "fin"

\* a >= b, a < b as Python/IEEE compare them (every comparison with NaN is False)
fge(a, b) ==
  IF a.k = "nan" \/ b.k = "nan" THEN FALSE
  ELSE IF a.k = "inf" THEN TRUE
  ELSE IF b.k = "ninf" THEN TRUE
  ELSE IF a.k = "ninf" \/ b.k = "inf" THEN FALSE
  ELSE a.v >= b.v

flt(a, b) ==
  IF a.k = "nan" \/ b.k = "nan" THEN FALSE
  ELSE IF a.k = "inf" \/ b.k = "ninf" THEN FALSE
  ELSE IF a.k = "ninf" \/ b.k = "inf" THEN TRUE
  ELSE a.v < b.v

\* abs(a - b) for a finite b
fabsdiff(a, b) ==
  IF a.k = "nan" THEN NaN
  ELSE IF a.k \in {"inf", "ninf"} THEN PosInf
  ELSE F(IF a.v >= b THEN a.v - b ELSE b - a.v)

\* Python's min(iterable): keep the first item, replace it by a later item
\* only when that item compares strictly less.
RECURSIVE pymin_from(_, _, _)
pymin_from(s, i, best) ==
  IF i > Len(s) THEN best
  ELSE pymin_from(s, i + 1, IF flt(s[i], best) THEN s[i] ELSE best)

pymin(s) == pymin_from(s, 2, s[1])

\* ------------------------------------------------- categorize_drought
LABELS ==
  [no_drought |-> "No Drought", mild |-> "Mild Drought",
   moderate |-> "Moderate Drought", severe |-> "Severe Drought",
   extreme |-> "Extreme Drought"]

\* variant: boundaries compared with > instead of >=
severity_level_strict(regcdi) ==
  IF flt(F(Half), regcdi) THEN "no_drought"
  ELSE IF flt(F(0), regcdi) THEN "mild"
  ELSE IF flt(F(-Half), regcdi) THEN "moderate"
  ELSE IF flt(F(-2 * Half), regcdi) THEN "severe"
  ELSE "extreme"

severity_level(regcdi) ==
  IF fge(regcdi, F(Half)) THEN "no_drought"
  ELSE IF fge(regcdi, F(0)) THEN "mild"
  ELSE IF fge(regcdi, F(-Half)) THEN "moderate"
  ELSE IF fge(regcdi, F(-2 * Half)) THEN "severe"
  ELSE "extreme"

categorize_drought(categories, regcdi) ==
  LET level == severity_level(regcdi)
  IN [level |-> level, label |-> categories[level]]

\* ------------------------------------------------- _calculate_confidence
\* variant: the boundary -1.0 is left out of the list
boundaries_three == <<-Half, 0, Half>>

boundaries == <<-2 * Half, -Half, 0, Half>>

min_distance(regcdi) ==
  pymin([i \in 1..Len(boundaries) |-> fabsdiff(regcdi, boundaries[i])])

\* variant: 0.5 + min_distance * 0.5
raw_confidence_steep(d) ==
  IF d.k = "fin" THEN F(4 * Half + 2 * d.v) ELSE d

\* 0.5 + min_distance * 0.25, in confidence ticks
raw_confidence(d) ==
  IF d.k = "fin" THEN F(4 * Half + d.v) ELSE d

calculate_confidence(regcdi) ==
  pymin(<<raw_confidence(min_distance(regcdi)), F(8 * Half)>>)

\* ------------------------------------------------------------ input tables
FEATURES == <<"rainfall_mm", "tmax_c", "tmin_c", "spei", "spi", "ndvi", "soil_moisture">>

\* a cell that is not a number (text in a numeric column)
Str == [k |-> "str", v |-> 0]

\* the artifacts load_model reads from ml_models/
SCALER_X == [mean_ |-> 3, scale_ |-> 2]
SCALER_Y == [mean_ |-> -2, scale_ |-> 3]
FEATURE_CONFIG == [features |-> FEATURES, drought_categories |-> LABELS]
MODEL(input_len) == [input_len |-> input_len, classes |-> 13]

\* Row r of a generated table: every cell is a multiple of the scaler's scale
\* above its mean (so that scaling is exact); kind "bad" puts text in the spei
\* column, kind "nan" leaves the ndvi cell empty.
Row(r, kind) ==
  [j \in 1..NUM_FEATURES |->
     IF kind = "bad" /\ j = 4 THEN Str
     ELSE IF kind = "nan" /\ j = 6 THEN NaN
     ELSE F(SCALER_X.mean_ + SCALER_X.scale_ * (r + j))]

Table(n, bad, nan) ==
  [columns |-> FEATURES,
   rows |-> [r \in 1..n |-> Row(r, IF r \in bad THEN "bad"
                                    ELSE IF r \in nan THEN "nan" ELSE "num")]]

Tables ==
  {Table(n, bad, {}) : n \in 0..MaxRows, bad \in {b \in SUBSET (1..MaxRows) : Cardinality(b) <= MaxBad}}
  \cup
  {Table(n, {}, nan) : n \in 0..MaxRows, nan \in {b \in SUBSET (1..MaxRows) : Cardinality(b) <= MaxNaN}}

Range(s) == {s[i] : i \in 1..Len(s)}

\* df.iloc[a:b] (0-based, end exclusive, clipped to the table)
iloc(df, a, b) ==
  [columns |-> df.columns,
   rows |-> SubSeq(df.rows, a + 1, IF b <= Len(df.rows) THEN b ELSE Len(df.rows))]

\* ------------------------------------------------------------ outcomes
Ok(value, calls) == [status |-> "ok", exc |-> NoExc, out |-> <<value>>, calls |-> calls]
Raise(exc, calls) == [status |-> "raise", exc |-> exc, out |-> <<>>, calls |-> calls]

ModelNotLoadedError == "ValueError: Model not loaded. Call load_model() first."

\* ------------------------------------------------------------ preprocess_data
ColIndex(columns, name) == CHOOSE c \in 1..Len(columns) : columns[c] = name

\* StandardScaler.transform on one cell: (x - mean_) / scale_
transform(scaler, cell) ==
  IF cell.k = "fin" THEN F((cell.v - scaler.mean_) \div scaler.scale_) ELSE cell

\* StandardScaler.inverse_transform on one value: y * scale_ + mean_
inverse_transform(scaler, y) ==
  IF y.k = "fin" THEN F(y.v * scaler.scale_ + scaler.mean_) ELSE y

\* what StandardScaler.transform refuses: text, infinities, an empty array
Unscalable(data) ==
  \/ Len(data) = 0
  \/ \E r \in 1..Len(data) : \E j \in 1..Len(data[r]) : data[r][j].k \in {"str", "inf", "ninf"}

\* variant: the columns are taken by position, df.values without df[feature_names]
select_columns_positional(df, feature_names) ==
  [r \in 1..Len(df.rows) |-> [j \in 1..Len(feature_names) |-> df.rows[r][j]]]

\* df[feature_names].values: the named columns, in the configured order
select_columns(df, feature_names) ==
  [r \in 1..Len(df.rows) |->
     [j \in 1..Len(feature_names) |-> df.rows[r][ColIndex(df.columns, feature_names[j])]]]

\* the KeyError of df[feature_names] names the columns that are not in the index
KeyError(missing) == Raise("KeyError", <<>>) @@ [missing |-> missing]

\* variant: a scaler fitted per feature column (its mean shifts with the column)
scale_cells_per_feature(scaler, data) ==
  [r \in 1..Len(data) |->
     [j \in 1..Len(data[r]) |->
        transform([scaler EXCEPT !.mean_ = @ + scaler.scale_ * (j - 1)], data[r][j])]]

\* reshape(-1, 1), transform, reshape(original_shape): every cell goes through
\* the scaler's single column and returns to its place
scale_cells(scaler, data) ==
  [r \in 1..Len(data) |-> [j \in 1..Len(data[r]) |-> transform(scaler, data[r][j])]]

preprocess_data(svc, df) ==
  IF svc.feature_config = None THEN Raise("TypeError", <<>>)
  ELSE
    LET feature_names == svc.feature_config.features
        missing == {feature_names[j] : j \in 1..Len(feature_names)} \ Range(df.columns)
    IN
    IF missing # {} THEN KeyError(missing)
    ELSE
      LET data == select_columns(df, feature_names)
          original_shape == <<Len(df.rows), Len(feature_names)>>
      IN IF svc.scaler_X = None THEN Raise("AttributeError", <<>>)
         ELSE IF Unscalable(data) THEN Raise("ValueError", <<"scaler_X.transform">>)
         ELSE Ok([shape |-> <<1>> \o original_shape,
                  data |-> scale_cells(svc.scaler_X, data)],
                 <<"scaler_X.transform">>)

\* ------------------------------------------------------------ model.predict
RECURSIVE SumSeq(_, _)
SumSeq(s, i) == IF i > Len(s) THEN 0 ELSE s[i].v + SumSeq(s, i + 1)

RECURSIVE SumRows(_, _)
SumRows(d, r) == IF r > Len(d) THEN 0 ELSE SumSeq(d[r], 1) + SumRows(d, r + 1)

HasNaN(d) == \E r \in 1..Len(d) : \E j \in 1..Len(d[r]) : d[r][j].k = "nan"

\* The trained network: a fixed function of the scaled tensor.  A network
\* saved with a fixed input length refuses any other length; NaN in the input
\* propagates to the output.
model_predict(m, X) ==
  IF m.input_len # 0 /\ X.shape[2] # m.input_len THEN Raise("ValueError", <<"model.predict">>)
  ELSE Ok(IF HasNaN(X.data) THEN NaN
          ELSE F((SumRows(X.data, 1) % m.classes) - (m.classes \div 2)),
          <<"model.predict">>)

\* ------------------------------------------------------------ predict
\* variant: the two category fields are swapped
make_result_swapped(categories, regcdi_value) ==
  LET category == categorize_drought(categories, regcdi_value) IN
  [regcdi_value |-> regcdi_value,
   drought_category |-> category.level,
   severity_level |-> category.label,
   confidence_score |-> calculate_confidence(regcdi_value),
   prediction_date |-> "utcnow",
   model_version |-> "stat-LSTM-v1.0"]

\* lines 102-113: classify the index and assemble the response dict
make_result(categories, regcdi_value) ==
  LET category == categorize_drought(categories, regcdi_value) IN
  [regcdi_value |-> regcdi_value,
   drought_category |-> category.label,
   severity_level |-> category.level,
   confidence_score |-> calculate_confidence(regcdi_value),
   prediction_date |-> "utcnow",
   model_version |-> "stat-LSTM-v1.0"]

\* lines 93-115: everything after the model-loaded guard
predict_body(svc, df) ==
  LET X == preprocess_data(svc, df) IN
  IF X.status = "raise" THEN X
  ELSE
    LET y_pred_scaled == model_predict(svc.model, X.out[1])
        calls == X.calls \o y_pred_scaled.calls
    IN IF y_pred_scaled.status = "raise" THEN Raise(y_pred_scaled.exc, calls)
       ELSE IF svc.scaler_y = None THEN Raise("AttributeError", calls)
       ELSE
         LET regcdi_value == inverse_transform(svc.scaler_y, y_pred_scaled.out[1])
         IN Ok(make_result(svc.feature_config.drought_categories, regcdi_value),
               calls \o <<"scaler_y.inverse_transform">>)

\* variant: the model-loaded guard is missing
predict_unguarded(svc, df) == predict_body(svc, df)

predict(svc, df) ==
  IF svc.model = None THEN Raise(ModelNotLoadedError, <<>>)
  ELSE predict_body(svc, df)

\* variant: preprocessing refits the scaler on the window (fit_transform)
predict_frame_refit(svc, df) ==
  [svc |-> [svc EXCEPT !.scaler_X = IF @ = None THEN @ ELSE [mean_ |-> 0, scale_ |-> 1]],
   df |-> df]

\* variant: the scaler is updated with every window it scales (partial_fit)
predict_frame_partial_fit(svc, df) ==
  [svc |-> [svc EXCEPT !.scaler_X = IF @ = None THEN @
                                    ELSE [mean_ |-> @.mean_ + @.scale_, scale_ |-> @.scale_]],
   df |-> df]

\* what a predict call leaves behind in the service and in the caller's table:
\* it assigns no attribute of self and rebinds only its local df
predict_frame(svc, df) == [svc |-> svc, df |-> df]

\* ------------------------------------------------------------ predict_batch
\* variant: range(len(df) - 12)
range_stop_short(n) == IF n - 12 > 0 THEN n - 12 ELSE 0

\* range(len(df) - 11): the number of loop iterations
range_stop(n) == IF n - 11 > 0 THEN n - 11 ELSE 0

window_of(df, i) == iloc(df, i, i + 12)

tagged(result, i) == result @@ [window_start |-> i, window_end |-> i + 11]

\* variant: predictions.insert(0, result)
batch_step_prepend(predictions, r, i) ==
  IF r.status = "ok" THEN <<r.out[1] @@ [window_start |-> i, window_end |-> i + 11]>> \o predictions
  ELSE predictions

\* one iteration of the loop body: append the tagged result, or skip the window
batch_step(predictions, r, i) ==
  IF r.status = "ok" THEN Append(predictions, tagged(r.out[1], i)) ELSE predictions

\* variant: the except clause leaves the loop (break instead of continue)
RECURSIVE batch_loop_abort(_, _, _, _)
batch_loop_abort(svc, df, i, predictions) ==
  IF i >= range_stop(Len(df.rows)) THEN predictions
  ELSE LET r == predict(svc, window_of(df, i)) IN
       IF r.status = "ok" THEN batch_loop_abort(svc, df, i + 1, batch_step(predictions, r, i))
       ELSE predictions

RECURSIVE batch_loop(_, _, _, _)
batch_loop(svc, df, i, predictions) ==
  IF i >= range_stop(Len(df.rows)) THEN predictions
  ELSE batch_loop(svc, df, i + 1, batch_step(predictions, predict(svc, window_of(df, i)), i))

\* variant: the loop body has no try/except, the first failing window ends the call
predict_batch_unguarded(svc, df) ==
  LET failing == {i \in 0..(range_stop(Len(df.rows)) - 1) :
                    predict(svc, window_of(df, i)).status = "raise"}
  IN IF failing = {}
     THEN [status |-> "ok", exc |-> NoExc, out |-> batch_loop(svc, df, 0, <<>>), calls |-> <<>>]
     ELSE Raise(predict(svc, window_of(df, CHOOSE i \in failing : \A j \in failing : i <= j)).exc,
                <<>>)

predict_batch(svc, df) ==
  [status |-> "ok", exc |-> NoExc, out |-> batch_loop(svc, df, 0, <<>>), calls |-> <<>>]

\* ================================================================ state
VARIABLES
  model, scaler_X, scaler_y, feature_config,   \* DroughtMLService attributes
  phase,                                       \* "constructed", "loaded", "load_failed",
                                               \* "serving", "startup_failed"
  mongo_db, mongo_up,                          \* DatabaseService handle; is the server reachable
  predictions, batch_uploads,                  \* the two MongoDB collections
  df,                                          \* the table the caller holds
  x,                                           \* the index value handed to the classifier
  ret,                                         \* outcome of the last operation
  env,                                         \* the installed libraries (fixed per deployment)
  manual,                                      \* the body of the manual request a client holds
  reqs                                         \* requests in flight between two awaits

svcvars == <<model, scaler_X, scaler_y, feature_config>>
dbvars == <<mongo_db, mongo_up, predictions, batch_uploads>>
vars == <<model, scaler_X, scaler_y, feature_config, phase, mongo_db, mongo_up,
          predictions, batch_uploads, df, x, ret, env, manual, reqs>>

Svc == [model |-> model, scaler_X |-> scaler_X, scaler_y |-> scaler_y,
        feature_config |-> feature_config]

NoRet == [op |-> "none", status |-> "ok", exc |-> NoExc, out |-> <<>>, calls |-> <<>>]
Called(name, r) == [op |-> name] @@ r

\* nothing in flight, no manual request, libraries as first released with the code
NoManual == [data |-> <<>>, location |-> None]
NoReqs == [none |-> TRUE]
Idle ==
  /\ env = [db_bool |-> "truthy"]
  /\ manual = NoManual
  /\ reqs = NoReqs

\* DroughtMLService.__init__ and DatabaseService.__init__
Constructed ==
  /\ model = None /\ scaler_X = None /\ scaler_y = None /\ feature_config = None
  /\ phase = "constructed"
  /\ mongo_db = None /\ mongo_up = FALSE
  /\ predictions = <<>> /\ batch_uploads = <<>>

Init ==
  /\ Constructed
  /\ Idle
  /\ df \in Tables
  /\ x = F(0)
  /\ ret = NoRet

\* ------------------------------------------------------------ load_model
\* The step at which loading raises, or "ok".  The attributes assigned before
\* the failing step stay assigned; the exception is re-raised.
LoadSteps == <<"model", "scaler_X", "scaler_y", "feature_config", "ok">>
StepIndex(step) == CHOOSE i \in 1..Len(LoadSteps) : LoadSteps[i] = step

load_model(svc, fails_at, input_len) ==
  LET n == StepIndex(fails_at) IN
  [model |-> IF n > 1 THEN MODEL(input_len) ELSE svc.model,
   scaler_X |-> IF n > 2 THEN SCALER_X ELSE svc.scaler_X,
   scaler_y |-> IF n > 3 THEN SCALER_Y ELSE svc.scaler_y,
   feature_config |-> IF n > 4 THEN FEATURE_CONFIG ELSE svc.feature_config]

LoadModel ==
  /\ phase = "constructed"
  /\ \E fails_at \in Range(LoadSteps), input_len \in {0, 12} :
       LET after == load_model(Svc, fails_at, input_len) IN
       /\ model' = after.model
       /\ scaler_X' = after.scaler_X
       /\ scaler_y' = after.scaler_y
       /\ feature_config' = after.feature_config
       /\ phase' = IF fails_at = "ok" THEN "loaded" ELSE "load_failed"
       /\ ret' = Called("load_model",
                        IF fails_at = "ok" THEN Ok(None, <<>>) ELSE Raise("Exception", <<>>))
  /\ UNCHANGED <<mongo_db, mongo_up, predictions, batch_uploads, df, x, env, manual, reqs>>

\* ------------------------------------------------------------ connect
\* AsyncIOMotorClient(...) raising leaves both handles None; a failed ping is
\* caught after mongo_db has been assigned.
ConnectOutcomes == {"ok", "ping_failed", "client_error"}

connect(outcome) ==
  [mongo_db |-> IF outcome = "client_error" THEN None ELSE [name |-> "drought_analytics"],
   mongo_up |-> (outcome = "ok")]

Connect ==
  /\ mongo_db = None
  /\ \E outcome \in ConnectOutcomes :
       /\ mongo_db' = connect(outcome).mongo_db
       /\ mongo_up' = connect(outcome).mongo_up
  /\ ret' = Called("connect", Ok(None, <<>>))
  /\ UNCHANGED <<model, scaler_X, scaler_y, feature_config, phase, predictions, batch_uploads,
                 df, x, env, manual, reqs>>

\* ------------------------------------------------------------ predict, predict_batch
Predict ==
  LET after == predict_frame(Svc, df) IN
  /\ ret' = Called("predict", predict(Svc, df))
  /\ model' = after.svc.model
  /\ scaler_X' = after.svc.scaler_X
  /\ scaler_y' = after.svc.scaler_y
  /\ feature_config' = after.svc.feature_config
  /\ df' = after.df
  /\ UNCHANGED <<phase, mongo_db, mongo_up, predictions, batch_uploads, x, env, manual, reqs>>

PredictBatch ==
  /\ ret' = Called("predict_batch", predict_batch(Svc, df))
  /\ UNCHANGED <<model, scaler_X, scaler_y, feature_config, phase, mongo_db, mongo_up,
                 predictions, batch_uploads, df, x, env, manual, reqs>>

Next == LoadModel \/ Connect \/ Predict \/ PredictBatch

Spec == Init /\ [][Next]_vars

\* ================================================ the classifier on its own
\* The service is loaded and the two pure functions are applied to an index
\* value drawn from a bounded range (and the three IEEE specials).
Floats == {F(n) : n \in (-MaxIdx * Half)..(MaxIdx * Half)} \cup {NaN, PosInf, NegInf}

Loaded ==
  /\ model = MODEL(12) /\ scaler_X = SCALER_X /\ scaler_y = SCALER_Y
  /\ feature_config = FEATURE_CONFIG
  /\ phase = "loaded"
  /\ mongo_db = None /\ mongo_up = FALSE
  /\ predictions = <<>> /\ batch_uploads = <<>>

InitClassify ==
  /\ Loaded
  /\ Idle
  /\ df = Table(0, {}, {})
  /\ x \in Floats
  /\ ret = NoRet

Categorize ==
  /\ ret' = Called("categorize_drought",
                   Ok(categorize_drought(feature_config.drought_categories, x), <<>>))
  /\ UNCHANGED <<model, scaler_X, scaler_y, feature_config, phase, mongo_db, mongo_up,
                 predictions, batch_uploads, df, x, env, manual, reqs>>

Confidence ==
  /\ ret' = Called("calculate_confidence", Ok(calculate_confidence(x), <<>>))
  /\ UNCHANGED <<model, scaler_X, scaler_y, feature_config, phase, mongo_db, mongo_up,
                 predictions, batch_uploads, df, x, env, manual, reqs>>

NextClassify == Categorize \/ Confidence

SpecClassify == InitClassify /\ [][NextClassify]_vars

\* ================================================ the feature schema
\* Tables whose columns are reordered, carry extra columns or lack required
\* ones, handed to preprocess_data, predict and predict_batch.
EXTRA_COLUMNS == <<"date", "region", "station", "source">>

Rotate(s, k) == [i \in 1..Len(s) |-> s[((i + k - 1) % Len(s)) + 1]]
Reverse(s) == [i \in 1..Len(s) |-> s[Len(s) + 1 - i]]
Without(s, names) == LET Keep(e) == e \notin names IN SelectSeq(s, Keep)

FeatureIndex(name) == CHOOSE j \in 1..Len(FEATURES) : FEATURES[j] = name

\* the cell of row r under a column: a number for a feature, text otherwise
CellOf(r, name) ==
  IF name \in Range(FEATURES)
  THEN F(SCALER_X.mean_ + SCALER_X.scale_ * (r + FeatureIndex(name)))
  ELSE Str

SchemaTable(n, cols) ==
  [columns |-> cols,
   rows |-> [r \in 1..n |-> [c \in 1..Len(cols) |-> CellOf(r, cols[c])]]]

Layouts ==
  {SubSeq(EXTRA_COLUMNS, 1, extra) \o Without(IF rev THEN Reverse(Rotate(FEATURES, k))
                                               ELSE Rotate(FEATURES, k), missing) :
     extra \in 0..MaxExtra, rev \in BOOLEAN, k \in 0..MaxRot,
     missing \in {m \in SUBSET Range(FEATURES) : Cardinality(m) <= MaxMissing}}

SchemaTables == {SchemaTable(n, cols) : n \in {WINDOW, WINDOW + 1}, cols \in Layouts}

InitSchema ==
  /\ Constructed
  /\ Idle
  /\ df \in SchemaTables
  /\ x = F(0)
  /\ ret = NoRet

Preprocess ==
  /\ ret' = Called("preprocess_data", preprocess_data(Svc, df))
  /\ UNCHANGED <<model, scaler_X, scaler_y, feature_config, phase, mongo_db, mongo_up,
                 predictions, batch_uploads, df, x, env, manual, reqs>>

NextSchema == LoadModel \/ Preprocess \/ Predict \/ PredictBatch

SpecSchema == InitSchema /\ [][NextSchema]_vars

\* ================================================ DatabaseService
\* `not self.mongo_db`: True for None.  For a database handle the outcome
\* depends on the installed driver: it is truthy, or its __bool__ raises
\* NotImplementedError ("compare with None instead").
Envs == {[db_bool |-> "truthy"], [db_bool |-> "raises"]}

db_guard(e, db) ==
  IF db = None THEN "skip"
  ELSE IF e.db_bool = "raises" THEN "raise"
  ELSE "go"

Stored(outcome, coll) == [outcome |-> outcome, coll |-> coll]

\* variant: the confidence is stored under regcdi_value and the index under
\* confidence_score
prediction_document_swapped(id, prediction_type, input_data, result, location) ==
  [_id |-> id,
   prediction_type |-> prediction_type,
   regcdi_value |-> result.confidence_score,
   drought_category |-> result.drought_category,
   severity_level |-> result.severity_level,
   confidence_score |-> result.regcdi_value,
   location |-> location,
   input_data |-> input_data,
   created_at |-> "utcnow",
   model_version |-> result.model_version]

prediction_document(id, prediction_type, input_data, result, location) ==
  [_id |-> id,
   prediction_type |-> prediction_type,
   regcdi_value |-> result.regcdi_value,
   drought_category |-> result.drought_category,
   severity_level |-> result.severity_level,
   confidence_score |-> result.confidence_score,
   location |-> location,
   input_data |-> input_data,
   created_at |-> "utcnow",
   model_version |-> result.model_version]

\* returns the inserted id, or None when there is no database or the insert
\* raised (the server is not reachable); the guard itself is outside the try
save_prediction(e, db, up, coll, prediction_type, input_data, result, location) ==
  LET g == db_guard(e, db) IN
  IF g = "raise" THEN Stored(Raise("NotImplementedError", <<>>), coll)
  ELSE IF g = "skip" THEN Stored(Ok(None, <<>>), coll)
  ELSE IF up
       THEN Stored(Ok([inserted_id |-> Len(coll) + 1], <<"insert_one">>),
                   Append(coll, prediction_document(Len(coll) + 1, prediction_type,
                                                    input_data, result, location)))
       ELSE Stored(Ok(None, <<"insert_one">>), coll)

batch_document(id, filename, preds) ==
  [_id |-> id, filename |-> filename, total_predictions |-> Len(preds),
   predictions |-> preds, uploaded_at |-> "utcnow"]

save_batch_predictions(e, db, up, coll, filename, preds) ==
  LET g == db_guard(e, db) IN
  IF g = "raise" THEN Stored(Raise("NotImplementedError", <<>>), coll)
  ELSE IF g = "skip" THEN Stored(Ok(None, <<>>), coll)
  ELSE IF up
       THEN Stored(Ok([inserted_id |-> Len(coll) + 1], <<"insert_one">>),
                   Append(coll, batch_document(Len(coll) + 1, filename, preds)))
       ELSE Stored(Ok(None, <<"insert_one">>), coll)

\* sort("created_at", -1): newest first; skip(k); limit(n)
Newest(coll) == [i \in 1..Len(coll) |-> coll[Len(coll) + 1 - i]]
Page(docs, skip, limit) ==
  SubSeq(docs, skip + 1, IF skip + limit <= Len(docs) THEN skip + limit ELSE Len(docs))
Drop(doc, field) == [f \in (DOMAIN doc) \ {field} |-> doc[f]]

get_recent_predictions(e, db, up, coll, location, limit) ==
  LET g == db_guard(e, db) IN
  IF g = "raise" THEN Raise("NotImplementedError", <<>>)
  ELSE IF g = "skip" \/ ~up THEN Ok(<<>>, <<>>)
  ELSE LET Match(d) == location = None \/ d.location = location
           found == Page(Newest(SelectSeq(coll, Match)), 0, limit)
       IN Ok([i \in 1..Len(found) |-> Drop(found[i], "input_data")], <<>>)

get_summary_stats(e, db, up, coll) ==
  LET g == db_guard(e, db) IN
  IF g = "raise" THEN Raise("NotImplementedError", <<>>)
  ELSE IF g = "skip" THEN Ok([total_predictions |-> 0, message |-> "Database not connected"], <<>>)
  ELSE IF up THEN Ok([total_predictions |-> Len(coll), drought_distribution |-> <<>>,
                      average_regcdi |-> F(0), last_prediction_date |-> None], <<>>)
  ELSE Ok([error |-> "ServerSelectionTimeoutError"], <<>>)

get_prediction_history(e, db, up, coll, skip, limit) ==
  LET g == db_guard(e, db) IN
  IF g = "raise" THEN Raise("NotImplementedError", <<>>)
  ELSE IF g = "skip" \/ ~up THEN Ok(<<>>, <<>>)
  ELSE LET found == Page(Newest(coll), skip, limit)
       IN Ok([i \in 1..Len(found) |->
                [id |-> found[i]._id] @@ Drop(Drop(found[i], "input_data"), "_id")], <<>>)

\* ================================================ the HTTP application
\* A response: the status code, the body (when 200), the detail of the
\* HTTPException otherwise, and the service calls the handler made, in order.
Http(code, body, exc, calls) ==
  [status |-> IF code = 200 THEN "ok" ELSE "raise", exc |-> exc, out |-> body,
   calls |-> calls, code |-> code]

\* variant: the handler reloads the artifacts on every request
Handled_reloading(resp, svc, coll) ==
  [resp |-> resp, svc |-> load_model(svc, "ok", 0), coll |-> coll]

\* what a handler leaves behind: its response, the service attributes and the
\* collection it writes to
Handled(resp, svc, coll) == [resp |-> resp, svc |-> svc, coll |-> coll]

\* `except Exception as e: raise HTTPException(status_code=500, ...)`: every
\* exception raised inside the try block, an HTTPException included, leaves
\* the handler as a 500
except_exception(exc, calls) == Http(500, <<>>, exc, calls)

\* ManualPredictionRequest: FastAPI validates the body before the handler runs
within(c, lo, hi) == c.k = "fin" /\ lo <= c.v /\ c.v <= hi

valid_months(row) ==
  /\ \A j \in 1..Len(row) : row[j].k # "str"
  /\ within(row[ColIndex(FEATURES, "ndvi")], 0, NDVI_LE)
  /\ within(row[ColIndex(FEATURES, "soil_moisture")], 0, SOIL_MOISTURE_LE)

valid_request(request) ==
  /\ Len(request.data) = 12
  /\ \A r \in 1..Len(request.data) : valid_months(request.data[r])

\* PredictionResponse (response_model): confidence_score is a float in [0, 1]
valid_response(result) == within(result.confidence_score, 0, 8 * Half)

\* JSONResponse renders with allow_nan=False
json_number(c) == c.k = "fin"
json_encodable(results) ==
  \A i \in 1..Len(results) :
    json_number(results[i].regcdi_value) /\ json_number(results[i].confidence_score)

\* POST /predict/manual, up to the first await: validation of the body, the
\* frame, the length check and predict.  `done` says the handler has ended.
manual_begin(svc, request) ==
  IF ~valid_request(request)
  THEN [done |-> TRUE, resp |-> Http(422, <<>>, "RequestValidationError", <<>>),
        result |-> <<>>, svc |-> svc]
  ELSE
    LET data_list == request.data
        frame == [columns |-> FEATURES, rows |-> data_list]
    IN IF Len(frame.rows) # 12
       THEN [done |-> TRUE, resp |-> except_exception("400: Expected 12 months of data", <<>>),
             result |-> <<>>, svc |-> svc]
       ELSE
         LET result == predict(svc, frame)
             after == predict_frame(svc, frame).svc
         IN IF result.status = "raise"
            THEN [done |-> TRUE, resp |-> except_exception(result.exc, <<"predict">>),
                  result |-> <<>>, svc |-> after]
            ELSE [done |-> FALSE, resp |-> NoRet, result |-> result.out, svc |-> after]

\* POST /predict/manual, from `await db_service.save_prediction(...)` on
manual_end(e, db, up, coll, request, result) ==
  LET saved == save_prediction(e, db, up, coll, "manual", request.data, result,
                               request.location)
      calls == <<"predict", "save_prediction">>
  IN [coll |-> saved.coll,
      resp |-> IF saved.outcome.status = "raise"
               THEN except_exception(saved.outcome.exc, calls)
               ELSE IF ~valid_response(result)
               THEN Http(500, <<>>, "ResponseValidationError", calls)
               ELSE Http(200, <<result>>, NoExc, calls)]

predict_manual(e, svc, db, up, coll, request) ==
  LET begun == manual_begin(svc, request) IN
  IF begun.done THEN Handled(begun.resp, begun.svc, coll)
  ELSE LET ended == manual_end(e, db, up, coll, request, begun.result[1])
       IN Handled(ended.resp, begun.svc, ended.coll)

\* POST /data
required_columns == <<"rainfall_mm", "tmax_c", "tmin_c", "spei", "spi", "ndvi", "soil_moisture">>

\* after `await file.read()`: the table, the column check and predict_batch
upload_begin(svc, file) ==
  LET frame == file.df
      missing_cols == Range(required_columns) \ Range(frame.columns)
  IN IF missing_cols # {}
     THEN [done |-> TRUE, resp |-> except_exception("400: Missing columns", <<>>),
           result |-> <<>>, svc |-> svc]
     ELSE
       LET batch == predict_batch(svc, frame)
           after == IF range_stop(Len(frame.rows)) > 0
                    THEN predict_frame(svc, window_of(frame, 0)).svc ELSE svc
       IN IF batch.status = "raise"
          THEN [done |-> TRUE, resp |-> except_exception(batch.exc, <<"predict_batch">>),
                result |-> <<>>, svc |-> after]
          ELSE [done |-> FALSE, resp |-> NoRet, result |-> batch.out, svc |-> after]

\* from `await db_service.save_batch_predictions(...)` on
upload_end(e, db, up, coll, file, preds) ==
  LET saved == save_batch_predictions(e, db, up, coll, file.filename, preds)
      calls == <<"predict_batch", "save_batch_predictions">>
  IN [coll |-> saved.coll,
      resp |-> IF saved.outcome.status = "raise"
               THEN except_exception(saved.outcome.exc, calls)
               ELSE IF ~json_encodable(preds)
               THEN Http(500, <<>>, "ValueError: Out of range float values", calls)
               ELSE Http(200, <<[message |-> "Data processed successfully",
                                 total_predictions |-> Len(preds),
                                 predictions |-> preds]>>, NoExc, calls)]

upload_data(e, svc, db, up, coll, file) ==
  LET begun == upload_begin(svc, file) IN
  IF begun.done THEN Handled(begun.resp, begun.svc, coll)
  ELSE LET ended == upload_end(e, db, up, coll, file, begun.result)
       IN Handled(ended.resp, begun.svc, ended.coll)

\* GET /forecast
get_forecast(e, db, up, coll, location, limit) ==
  LET forecasts == get_recent_predictions(e, db, up, coll, location, limit) IN
  IF forecasts.status = "raise" THEN except_exception(forecasts.exc, <<"get_recent_predictions">>)
  ELSE IF ~json_encodable(forecasts.out[1])
  THEN Http(500, <<>>, "ValueError: Out of range float values", <<"get_recent_predictions">>)
  ELSE Http(200, <<[total |-> Len(forecasts.out[1]), forecasts |-> forecasts.out[1]]>>,
            NoExc, <<"get_recent_predictions">>)

\* GET /summary
get_summary(e, db, up, coll) ==
  LET summary == get_summary_stats(e, db, up, coll) IN
  IF summary.status = "raise" THEN except_exception(summary.exc, <<"get_summary_stats">>)
  ELSE Http(200, summary.out, NoExc, <<"get_summary_stats">>)

\* GET /history
get_history(e, db, up, coll, skip, limit) ==
  LET history == get_prediction_history(e, db, up, coll, skip, limit) IN
  IF history.status = "raise" THEN except_exception(history.exc, <<"get_prediction_history">>)
  ELSE IF ~json_encodable(history.out[1])
  THEN Http(500, <<>>, "ValueError: Out of range float values", <<"get_prediction_history">>)
  ELSE Http(200, <<[total |-> Len(history.out[1]), skip |-> skip, limit |-> limit,
                    history |-> history.out[1]]>>, NoExc, <<"get_prediction_history">>)

\* GET /health
health_check(svc) ==
  Http(200, <<[status |-> "healthy", model_loaded |-> (svc.model # None),
               version |-> "1.0.0"]>>, NoExc, <<>>)

\* ------------------------------------------------------------ requests
Location(name) == [name |-> name]

\* a month of a manual request: ndvi within its range unless the variant says
\* otherwise, one rainfall cell NaN in the "nan" variant
ManualRow(r, kind) ==
  [j \in 1..NUM_FEATURES |->
     IF FEATURES[j] = "ndvi" THEN (IF kind = "ndvi_out" THEN F(NDVI_LE + 2) ELSE F(NDVI_LE))
     ELSE IF kind = "nan" /\ j = 1 /\ r = 1 THEN NaN
     ELSE CellOf(r, FEATURES[j])]

ManualRequest(n, kind, location) ==
  [data |-> [r \in 1..n |-> ManualRow(r, kind)], location |-> location]

Manuals ==
  {ManualRequest(n, "valid", Location("Maharashtra")) : n \in (WINDOW - 1)..(WINDOW + 1)}
  \cup {ManualRequest(n, kind, None) : n \in {WINDOW}, kind \in {"ndvi_out", "nan"}}

\* the uploaded CSV files: short, exact, longer, with a text or an empty cell,
\* lacking a required column, with an extra column and another column order
Uploads ==
  {Table(n, {}, {}) : n \in {0, WINDOW - 1, WINDOW, WINDOW + 1}}
  \cup {Table(WINDOW + 1, {1}, {}), Table(WINDOW, {}, {3})}
  \cup {SchemaTable(WINDOW, Without(FEATURES, {"spei"})),
        SchemaTable(WINDOW + 1, <<"date">> \o Reverse(FEATURES))}

InitApi ==
  /\ Constructed
  /\ env \in Envs
  /\ manual \in Manuals
  /\ reqs = NoReqs
  /\ df \in Uploads
  /\ x = F(0)
  /\ ret = NoRet

\* ------------------------------------------------------------ startup_event
\* variant: a failure of load_model is logged and the application starts
startup_phase_lenient(load_ok) == "serving"

\* load_model raising leaves startup_event before connect is called and the
\* application does not start; connect never raises
startup_phase(load_ok) == IF load_ok THEN "serving" ELSE "startup_failed"

Startup ==
  /\ phase = "constructed"
  /\ \E fails_at \in Range(LoadSteps), input_len \in {0, 12}, outcome \in ConnectOutcomes :
       LET after == load_model(Svc, fails_at, input_len)
           load_ok == fails_at = "ok"
       IN /\ model' = after.model
          /\ scaler_X' = after.scaler_X
          /\ scaler_y' = after.scaler_y
          /\ feature_config' = after.feature_config
          /\ phase' = startup_phase(load_ok)
          /\ mongo_db' = IF load_ok THEN connect(outcome).mongo_db ELSE mongo_db
          /\ mongo_up' = IF load_ok THEN connect(outcome).mongo_up ELSE mongo_up
          /\ ret' = Called("startup_event",
                           IF load_ok THEN Ok(None, <<"load_model", "connect">>)
                           ELSE Raise("Exception", <<"load_model">>))
  /\ UNCHANGED <<predictions, batch_uploads, df, x, env, manual, reqs>>

\* ------------------------------------------------------------ handlers
PredictManual ==
  /\ phase = "serving"
  /\ Len(predictions) < MaxDocs
  /\ LET h == predict_manual(env, Svc, mongo_db, mongo_up, predictions, manual) IN
     /\ ret' = Called("predict_manual", h.resp)
     /\ predictions' = h.coll
     /\ model' = h.svc.model
     /\ scaler_X' = h.svc.scaler_X
     /\ scaler_y' = h.svc.scaler_y
     /\ feature_config' = h.svc.feature_config
  /\ UNCHANGED <<phase, mongo_db, mongo_up, batch_uploads, df, x, env, manual, reqs>>

\* the handler of POST /data, whenever the application lets it run
UploadDataRun ==
  /\ Len(batch_uploads) < MaxDocs
  /\ LET h == upload_data(env, Svc, mongo_db, mongo_up, batch_uploads,
                          [filename |-> "upload.csv", df |-> df]) IN
     /\ ret' = Called("upload_data", h.resp)
     /\ batch_uploads' = h.coll
     /\ model' = h.svc.model
     /\ scaler_X' = h.svc.scaler_X
     /\ scaler_y' = h.svc.scaler_y
     /\ feature_config' = h.svc.feature_config
  /\ UNCHANGED <<phase, mongo_db, mongo_up, predictions, df, x, env, manual, reqs>>

UploadData ==
  /\ phase = "serving"
  /\ UploadDataRun

GetForecast ==
  /\ phase = "serving"
  /\ \E location \in {None, Location("Maharashtra")}, limit \in {1, 10} :
       ret' = Called("get_forecast",
                     get_forecast(env, mongo_db, mongo_up, predictions, location, limit))
  /\ UNCHANGED <<model, scaler_X, scaler_y, feature_config, phase, mongo_db, mongo_up,
                 predictions, batch_uploads, df, x, env, manual, reqs>>

GetSummary ==
  /\ phase = "serving"
  /\ ret' = Called("get_summary", get_summary(env, mongo_db, mongo_up, predictions))
  /\ UNCHANGED <<model, scaler_X, scaler_y, feature_config, phase, mongo_db, mongo_up,
                 predictions, batch_uploads, df, x, env, manual, reqs>>

GetHistory ==
  /\ phase = "serving"
  /\ \E skip \in {0, 1}, limit \in {1, 50} :
       ret' = Called("get_history",
                     get_history(env, mongo_db, mongo_up, predictions, skip, limit))
  /\ UNCHANGED <<model, scaler_X, scaler_y, feature_config, phase, mongo_db, mongo_up,
                 predictions, batch_uploads, df, x, env, manual, reqs>>

HealthCheck ==
  /\ phase = "serving"
  /\ ret' = Called("health_check", health_check(Svc))
  /\ UNCHANGED <<model, scaler_X, scaler_y, feature_config, phase, mongo_db, mongo_up,
                 predictions, batch_uploads, df, x, env, manual, reqs>>

NextApi ==
  \/ Startup
  \/ PredictManual
  \/ UploadData
  \/ GetForecast
  \/ GetSummary
  \/ GetHistory
  \/ HealthCheck

SpecApi == InitApi /\ [][NextApi]_vars

\* ================================================ requests in flight
\* One manual request and one upload are handled by the event loop at the same
\* time.  A handler runs without interruption from one await to the next:
\* upload_data awaits file.read() and save_batch_predictions, predict_manual
\* awaits save_prediction.  `log` records the order of the steps taken.
Pending == [pc |-> "pending", result |-> <<>>, resp |-> NoRet]

InitConc ==
  /\ Constructed
  /\ env \in Envs
  /\ manual \in Manuals
  /\ df \in Uploads
  /\ reqs = [manual |-> Pending, batch |-> Pending, log |-> <<>>]
  /\ x = F(0)
  /\ ret = NoRet

File == [filename |-> "upload.csv", df |-> df]

ManualPredict ==
  /\ phase = "serving"
  /\ reqs.manual.pc = "pending"
  /\ LET begun == manual_begin(Svc, manual) IN
     /\ reqs' = [reqs EXCEPT !.manual = [pc |-> IF begun.done THEN "responded" ELSE "saving",
                                         result |-> begun.result, resp |-> begun.resp],
                             !.log = Append(@, "manual_predict")]
     /\ ret' = IF begun.done THEN Called("predict_manual", begun.resp) ELSE ret
     /\ model' = begun.svc.model
     /\ scaler_X' = begun.svc.scaler_X
     /\ scaler_y' = begun.svc.scaler_y
     /\ feature_config' = begun.svc.feature_config
  /\ UNCHANGED <<phase, mongo_db, mongo_up, predictions, batch_uploads, df, x, env, manual>>

ManualSave ==
  /\ reqs.manual.pc = "saving"
  /\ LET ended == manual_end(env, mongo_db, mongo_up, predictions, manual,
                             reqs.manual.result[1]) IN
     /\ predictions' = ended.coll
     /\ reqs' = [reqs EXCEPT !.manual.pc = "responded", !.manual.resp = ended.resp,
                             !.log = Append(@, "manual_save")]
     /\ ret' = Called("predict_manual", ended.resp)
  /\ UNCHANGED <<model, scaler_X, scaler_y, feature_config, phase, mongo_db, mongo_up,
                 batch_uploads, df, x, env, manual>>

UploadRead ==
  /\ phase = "serving"
  /\ reqs.batch.pc = "pending"
  /\ reqs' = [reqs EXCEPT !.batch.pc = "read", !.log = Append(@, "upload_read")]
  /\ UNCHANGED <<model, scaler_X, scaler_y, feature_config, phase, mongo_db, mongo_up,
                 predictions, batch_uploads, df, x, ret, env, manual>>

UploadPredict ==
  /\ reqs.batch.pc = "read"
  /\ LET begun == upload_begin(Svc, File) IN
     /\ reqs' = [reqs EXCEPT !.batch = [pc |-> IF begun.done THEN "responded" ELSE "saving",
                                        result |-> begun.result, resp |-> begun.resp],
                             !.log = Append(@, "upload_predict")]
     /\ ret' = IF begun.done THEN Called("upload_data", begun.resp) ELSE ret
     /\ model' = begun.svc.model
     /\ scaler_X' = begun.svc.scaler_X
     /\ scaler_y' = begun.svc.scaler_y
     /\ feature_config' = begun.svc.feature_config
  /\ UNCHANGED <<phase, mongo_db, mongo_up, predictions, batch_uploads, df, x, env, manual>>

UploadSave ==
  /\ reqs.batch.pc = "saving"
  /\ LET ended == upload_end(env, mongo_db, mongo_up, batch_uploads, File,
                             reqs.batch.result) IN
     /\ batch_uploads' = ended.coll
     /\ reqs' = [reqs EXCEPT !.batch.pc = "responded", !.batch.resp = ended.resp,
                             !.log = Append(@, "upload_save")]
     /\ ret' = Called("upload_data", ended.resp)
  /\ UNCHANGED <<model, scaler_X, scaler_y, feature_config, phase, mongo_db, mongo_up,
                 predictions, df, x, env, manual>>

NextConc ==
  \/ Startup
  \/ ManualPredict
  \/ ManualSave
  \/ UploadRead
  \/ UploadPredict
  \/ UploadSave

SpecConc == InitConc /\ [][NextConc]_vars

\* ================================================ the application not started
\* The application answers requests although startup_event has not run (the
\* server's lifespan protocol is off, or a test client that is not entered):
\* neither load_model nor connect has been called by the application.
\* load_model may still be called on the service object, and may fail.
InitUnstarted ==
  /\ Constructed
  /\ env \in Envs
  /\ manual = NoManual
  /\ reqs = NoReqs
  /\ df \in Uploads
  /\ x = F(0)
  /\ ret = NoRet

UploadDataUnstarted ==
  /\ phase # "serving"
  /\ UploadDataRun

NextUnstarted == LoadModel \/ PredictBatch \/ UploadDataUnstarted

SpecUnstarted == InitUnstarted /\ [][NextUnstarted]_vars

\* ================================================================ properties
\* While ret.op names predict or predict_batch, the service attributes and df
\* are those the call ran with: every other action overwrites ret.op.

N == Len(df.rows)

\* the 12 rows [i, i+12) of the caller's table
RowsAt(i) == [columns |-> df.columns, rows |-> [r \in 1..WINDOW |-> df.rows[i + r]]]
WindowIds == 0..(N - WINDOW)
Fails(i) == predict(Svc, RowsAt(i)).status = "raise"
Failing == {i \in WindowIds : Fails(i)}
Expected(i) == predict(Svc, RowsAt(i)).out[1] @@ [window_start |-> i, window_end |-> i + (WINDOW - 1)]
Max0(n) == IF n > 0 THEN n ELSE 0

\* C1: when no window fails, predict_batch returns max(0, N-11) results, the
\* i-th one computed from rows [i, i+12) and tagged (i, i+11); for N < 12 the
\* list is empty and nothing is raised.
C1_BatchWindows ==
  (ret.op = "predict_batch" /\ Failing = {}) =>
     /\ ret.status = "ok"
     /\ Len(ret.out) = Max0(N - 11)
     /\ \A i \in WindowIds : ret.out[i + 1] = Expected(i)
     /\ (N < 12 => ret.out = <<>>)

C1_Witness ==
  /\ ret.op = "predict_batch" /\ N = 14 /\ Failing = {}
  /\ Len(ret.out) = 3 /\ ret.out[3].window_start = 2 /\ ret.out[3].window_end = 13

\* C2: with failing windows predict_batch still returns, its list has
\* max(0, N-11) minus the number of failing windows entries, and every window
\* that does not fail is present with its own tags, also after a failing one.
C2_BatchSkipsFailures ==
  ret.op = "predict_batch" =>
     /\ ret.status = "ok"
     /\ Len(ret.out) = Max0(N - 11) - Cardinality(Failing)
     /\ \A i \in WindowIds \ Failing : \E k \in 1..Len(ret.out) : ret.out[k] = Expected(i)

C2_Witness ==
  /\ ret.op = "predict_batch" /\ model # None
  /\ \E i \in Failing : \E j \in WindowIds \ Failing : i < j
  /\ Len(ret.out) = (N - 11) - Cardinality(Failing) /\ Len(ret.out) > 0

\* C3: the window_start values of a predict_batch result are strictly
\* increasing along the list.
C3_BatchOrdered ==
  ret.op = "predict_batch" =>
     \A k \in 1..(Len(ret.out) - 1) : ret.out[k].window_start < ret.out[k + 1].window_start

C3_Witness ==
  /\ ret.op = "predict_batch" /\ Failing # {}
  /\ Len(ret.out) >= 2 /\ ret.out[1].window_start < ret.out[2].window_start

\* the classification table of the specification, on a finite index
TableLevel(v) ==
  CASE v >= Half -> "no_drought"
    [] 0 <= v /\ v < Half -> "mild"
    [] -Half <= v /\ v < 0 -> "moderate"
    [] -2 * Half <= v /\ v < -Half -> "severe"
    [] v < -2 * Half -> "extreme"

Dist(v, b) == IF v >= b THEN v - b ELSE b - v
Nearest(v) ==
  CHOOSE d \in {Dist(v, b) : b \in {-2 * Half, -Half, 0, Half}} :
    \A b \in {-2 * Half, -Half, 0, Half} : d <= Dist(v, b)

InUnit(c) == c.k = "fin" /\ 0 <= c.v /\ c.v <= 8 * Half

\* C6: every result of predict on a 12-row window, alone or inside
\* predict_batch, carries a confidence in [0,1], equal to 0.5 on a boundary,
\* and no index nearer to a boundary has a larger confidence.
C6_ConfidenceRange ==
  ((ret.op = "predict" /\ N = WINDOW) \/ ret.op = "predict_batch") =>
     \A k \in 1..Len(ret.out) :
        /\ InUnit(ret.out[k].confidence_score)
        /\ LET v == ret.out[k].regcdi_value.v IN
           /\ (Nearest(v) = 0 => ret.out[k].confidence_score = F(4 * Half))
           /\ \A w \in (-MaxIdx * Half)..(MaxIdx * Half) :
                Nearest(w) <= Nearest(v) =>
                  calculate_confidence(F(w)).v <= ret.out[k].confidence_score.v

\* C7: predict on a service whose model is None raises the model-not-loaded
\* error, returns nothing, calls no collaborator and changes nothing.
C7_NotLoaded ==
  [][(ret'.op = "predict" /\ model = None) =>
       /\ ret'.status = "raise" /\ ret'.exc = ModelNotLoadedError
       /\ ret'.out = <<>> /\ ret'.calls = <<>>
       /\ UNCHANGED <<model, scaler_X, scaler_y, feature_config, phase,
                      mongo_db, mongo_up, predictions, batch_uploads, df>>]_vars

C7_Witness ==
  /\ ret.op = "predict" /\ model = None /\ ret.exc = ModelNotLoadedError
  /\ mongo_db # None /\ N = 12

\* C8: predict on a loaded service refuses a window whose length is not 12
\* before any scaling or inference call, and produces no result for it.
C8_ShapeRejected ==
  (ret.op = "predict" /\ model # None /\ N # WINDOW) =>
     ret.status = "raise" /\ ret.out = <<>> /\ ret.calls = <<>>

\* C9: predict on a 12-row window never returns a result whose index is NaN
\* or infinite.
C9_FiniteIndex ==
  (ret.op = "predict" /\ N = WINDOW /\ ret.status = "ok") =>
     IsFinite(ret.out[1].regcdi_value)

\* C10: a predict call, succeeding or failing, leaves model, scalers, feature
\* configuration and the caller's table as they were, and a failing call
\* returns no result.
C10_PredictFrame ==
  [][ret'.op = "predict" =>
       /\ UNCHANGED <<model, scaler_X, scaler_y, feature_config, df>>
       /\ (ret'.status = "raise" => ret'.out = <<>>)
       /\ (ret'.status = "ok" => Len(ret'.out) = 1)]_vars

C10_Witness ==
  /\ ret.op = "predict" /\ ret.status = "raise" /\ ret.calls # <<>>
  /\ scaler_X = SCALER_X /\ N = 12

\* the required columns df lacks, and the cell of row r under feature j
MissingColumns == Range(FEATURES) \ Range(df.columns)
RawCell(r, j) == df.rows[r][CHOOSE c \in 1..Len(df.columns) : df.columns[c] = FEATURES[j]]

\* C11: with a loaded configuration preprocess_data yields the 7 configured
\* features in configured order whatever the column order and extra columns
\* of the input; with a required column missing it raises the KeyError naming
\* the missing columns, and neither predict nor predict_batch yields a
\* prediction.
C11_Projection ==
  /\ (ret.op = "preprocess_data" /\ feature_config # None /\ scaler_X # None
        /\ MissingColumns = {}) =>
        /\ ret.status = "ok"
        /\ ret.out[1].shape = <<1, N, NUM_FEATURES>>
        /\ \A r \in 1..N : \A j \in 1..NUM_FEATURES :
             ret.out[1].data[r][j] = transform(SCALER_X, RawCell(r, j))
  /\ (ret.op = "preprocess_data" /\ feature_config # None /\ MissingColumns # {}) =>
        /\ ret.status = "raise" /\ ret.exc = "KeyError" /\ ret.out = <<>>
        /\ ret.missing = MissingColumns
  /\ (ret.op \in {"predict", "predict_batch"} /\ MissingColumns # {}) => ret.out = <<>>

C11_Witness ==
  /\ ret.op = "preprocess_data" /\ ret.status = "ok"
  /\ df.columns # FEATURES /\ Len(df.columns) > NUM_FEATURES
  /\ df.columns[Len(df.columns)] = FEATURES[1]

ScalerNotLoadedError == "ScalerNotLoadedError"

\* C17: scaling with a scaler that is not loaded fails with
\* ScalerNotLoadedError and produces no result.
C17_ScalerNotLoaded ==
  ((ret.op = "preprocess_data" /\ scaler_X = None)
     \/ (ret.op = "predict" /\ model # None /\ (scaler_X = None \/ scaler_y = None))) =>
     ret.status = "raise" /\ ret.exc = ScalerNotLoadedError /\ ret.out = <<>>

\* C19: forward scaling of a 12-row window returns a (1, 12, 7) tensor whose
\* every cell is its own raw cell put through the one mean/scale pair of
\* scaler_X, whichever feature it belongs to.
C19_UniformScaling ==
  (ret.op = "preprocess_data" /\ ret.status = "ok" /\ N = WINDOW) =>
     /\ ret.out[1].shape = <<1, WINDOW, NUM_FEATURES>>
     /\ Len(ret.out[1].data) = WINDOW
     /\ \A r \in 1..WINDOW :
          /\ Len(ret.out[1].data[r]) = NUM_FEATURES
          /\ \A j \in 1..NUM_FEATURES :
               ret.out[1].data[r][j].v * scaler_X.scale_ + scaler_X.mean_ = RawCell(r, j).v

C19_Witness ==
  /\ ret.op = "preprocess_data" /\ ret.status = "ok" /\ N = WINDOW
  /\ RawCell(1, 2) = RawCell(2, 1) /\ ret.out[1].data[1][2] = ret.out[1].data[2][1]
  /\ ret.out[1].data[1][1] # ret.out[1].data[1][NUM_FEATURES]

ResultFields ==
  {"regcdi_value", "drought_category", "severity_level", "confidence_score",
   "prediction_date", "model_version"}

\* the category and confidence fields of r are those of r.regcdi_value
Derived(r) ==
  /\ r.model_version = "stat-LSTM-v1.0"
  /\ r.severity_level = severity_level(r.regcdi_value)
  /\ r.drought_category = LABELS[r.severity_level]
  /\ r.confidence_score = calculate_confidence(r.regcdi_value)
  /\ IsFinite(r.regcdi_value) =>
       /\ r.severity_level = TableLevel(r.regcdi_value.v)
       /\ r.confidence_score = F(IF 4 * Half + Nearest(r.regcdi_value.v) < 8 * Half
                                 THEN 4 * Half + Nearest(r.regcdi_value.v) ELSE 8 * Half)

C20_ModelImpliesAll ==
  model # None => (scaler_X # None /\ scaler_y # None /\ feature_config # None)

HandlerOps ==
  {"predict_manual", "upload_data", "get_forecast", "get_summary", "get_history", "health_check"}
AllLoaded == model # None /\ scaler_X # None /\ scaler_y # None /\ feature_config # None
DbDown == mongo_db = None \/ ~mongo_up
ManualFrame == [columns |-> FEATURES, rows |-> manual.data]

\* C12: with the database absent or unreachable, a manual request and an
\* upload whose prediction yields a presentable result answer 200 with that
\* result and store nothing, and /forecast and /history answer 200 with an
\* empty list.
C12_DegradesSilently ==
  DbDown =>
    /\ (/\ ret.op = "predict_manual" /\ valid_request(manual)
        /\ predict(Svc, ManualFrame).status = "ok"
        /\ valid_response(predict(Svc, ManualFrame).out[1])) =>
          /\ ret.code = 200 /\ ret.out = predict(Svc, ManualFrame).out
          /\ predictions = <<>>
    /\ (/\ ret.op = "upload_data" /\ MissingColumns = {}
        /\ json_encodable(predict_batch(Svc, df).out)) =>
          /\ ret.code = 200 /\ ret.out[1].predictions = predict_batch(Svc, df).out
          /\ batch_uploads = <<>>
    /\ ret.op = "get_forecast" => ret.code = 200 /\ ret.out[1].forecasts = <<>>
    /\ ret.op = "get_history" => ret.code = 200 /\ ret.out[1].history = <<>>

\* C14: an upload whose table lacks a required column, and a manual request
\* whose window does not have 12 months, are answered with a 4xx status.
C14_MalformedIs4xx ==
  /\ (ret.op = "upload_data" /\ MissingColumns # {}) => (400 <= ret.code /\ ret.code < 500)
  /\ (ret.op = "predict_manual" /\ Len(manual.data) # WINDOW) =>
       (400 <= ret.code /\ ret.code < 500)

\* C15: once startup_event has run, no step changes the model, a scaler or the
\* feature configuration, and startup_event does not run a second time.
C15_LoadedOnce ==
  [][phase # "constructed" =>
       (phase' = phase /\ UNCHANGED <<model, scaler_X, scaler_y, feature_config>>)]_vars

C15_Witness ==
  /\ ret.op = "upload_data" /\ ret.code = 200 /\ Len(ret.out[1].predictions) = 2
  /\ Len(predictions) = 1
  /\ Svc = load_model(Svc, "ok", 12)

\* C16: the application serves requests only when load_model has assigned all
\* four artifacts; a startup in which load_model raised ends with the
\* application not serving, before connect is called and with no request ever
\* handled; a startup in which load_model succeeded ends serving whatever the
\* outcome of connect.
C16_ServesOnlyLoaded ==
  /\ (phase = "serving" \/ ret.op \in HandlerOps) => AllLoaded
  /\ ret.op = "startup_event" =>
       /\ (ret.status = "raise") = ~AllLoaded
       /\ phase = IF AllLoaded THEN "serving" ELSE "startup_failed"
  /\ phase = "startup_failed" =>
       /\ ret.op = "startup_event" /\ ret.calls = <<"load_model">>
       /\ mongo_db = None /\ predictions = <<>> /\ batch_uploads = <<>>

C16_Witness ==
  /\ ret.op = "predict_manual" /\ ret.code = 200
  /\ mongo_db # None /\ ~mongo_up /\ env.db_bool = "truthy"

\* the service as startup_event loaded it
SoloSvc ==
  [model |-> model, scaler_X |-> SCALER_X, scaler_y |-> SCALER_Y,
   feature_config |-> FEATURE_CONFIG]

\* C18: in every interleaving of a manual request and an upload, the result
\* each request holds after its predict step, and the response it ends with,
\* are those of the same request handled alone by the service as loaded.
C18_NoInterference ==
  /\ reqs.manual.pc = "saving" => reqs.manual.result = predict(SoloSvc, ManualFrame).out
  /\ reqs.manual.pc = "responded" =>
       reqs.manual.resp = predict_manual(env, SoloSvc, mongo_db, mongo_up, <<>>, manual).resp
  /\ reqs.batch.pc = "saving" => reqs.batch.result = predict_batch(SoloSvc, df).out
  /\ reqs.batch.pc = "responded" =>
       reqs.batch.resp = upload_data(env, SoloSvc, mongo_db, mongo_up, <<>>, File).resp

C18_Witness ==
  /\ reqs.log = <<"upload_read", "manual_predict", "upload_predict", "manual_save", "upload_save">>
  /\ reqs.manual.resp.code = 200 /\ reqs.batch.resp.code = 200
  /\ Len(reqs.batch.resp.out[1].predictions) = 2
  /\ Len(predictions) = 1 /\ Len(batch_uploads) = 1

\* the middles of the mild, moderate and severe buckets (0.25, -0.25, -0.75),
\* in doubled index ticks
Midpoints2 == {Half, -Half, -3 * Half}

C21_BatchNeverRaises ==
  /\ ret.op = "predict_batch" =>
       /\ ret.status = "ok"
       /\ model = None => ret.out = <<>>
  /\ (ret.op = "upload_data" /\ model = None /\ MissingColumns = {}) =>
       /\ ret.code = 200
       /\ ret.out[1].message = "Data processed successfully"
       /\ ret.out[1].total_predictions = 0
       /\ ret.out[1].predictions = <<>>

C21_Witness ==
  /\ ret.op = "upload_data" /\ model = None /\ N = WINDOW + 1
  /\ ret.code = 200 /\ ret.out[1].total_predictions = 0
  /\ predict(Svc, RowsAt(0)).exc = ModelNotLoadedError

\* the record d stores the result r of the manual request
Records(d, r) ==
  /\ d.prediction_type = "manual"
  /\ d.regcdi_value = r.regcdi_value
  /\ d.drought_category = r.drought_category
  /\ d.severity_level = r.severity_level
  /\ d.confidence_score = r.confidence_score
  /\ d.model_version = r.model_version
  /\ d.input_data = manual.data
  /\ d.location = manual.location

\* C22: a manual request calls save_prediction at most once and only after
\* predict has returned, with predict's result; it adds at most one record,
\* which stores that result; a request that is rejected or whose predict
\* raises adds none; a 200 response carries the result handed to
\* save_prediction.
C22_SaveFollowsPredict ==
  [][ret'.op = "predict_manual" =>
       LET r == predict(Svc, ManualFrame)
           called == "save_prediction" \in Range(ret'.calls)
       IN /\ ret'.calls \in {<<>>, <<"predict">>, <<"predict", "save_prediction">>}
          /\ called => (valid_request(manual) /\ r.status = "ok")
          /\ (~valid_request(manual) \/ r.status = "raise") =>
               (~called /\ predictions' = predictions)
          /\ predictions' # predictions =>
               /\ called
               /\ Len(predictions') = Len(predictions) + 1
               /\ SubSeq(predictions', 1, Len(predictions)) = predictions
               /\ Records(predictions'[Len(predictions')], r.out[1])
          /\ ret'.code = 200 => (called /\ ret'.out = r.out)]_vars

C22_Witness ==
  /\ ret.op = "predict_manual" /\ ret.code = 200
  /\ ret.calls = <<"predict", "save_prediction">>
  /\ Len(predictions) = 1 /\ Records(predictions[1], ret.out[1])

Connected == mongo_db # None /\ mongo_up

\* C23: with the database connected, /summary reports the number of records
\* in the predictions collection, all of them manual predictions; an upload
\* that reaches predict_batch adds one document to batch_uploads whose
\* total_predictions is the number of predictions of that upload, and leaves
\* the predictions collection alone; a manual request leaves batch_uploads
\* alone.
C23_SummaryCounts ==
  [][Connected =>
       /\ ret'.op = "get_summary" =>
            /\ ret'.code = 200
            /\ ret'.out[1].total_predictions = Len(predictions)
            /\ \A i \in 1..Len(predictions) : predictions[i].prediction_type = "manual"
       /\ (ret'.op = "upload_data" /\ MissingColumns = {}) =>
            /\ predictions' = predictions
            /\ Len(batch_uploads') = Len(batch_uploads) + 1
            /\ batch_uploads'[Len(batch_uploads')].total_predictions
                 = Len(predict_batch(Svc, df).out)
            /\ batch_uploads'[Len(batch_uploads')].predictions = predict_batch(Svc, df).out
       /\ ret'.op = "predict_manual" => batch_uploads' = batch_uploads]_vars

====
